---- MODULE Spec2Model ----
(***************************************************************************)
(* Model of qSlicerSettingsStylesPanel (Base/QTGUI).                       *)
(*                                                                         *)
(* The panel owns a combo box of style names (StyleComboBox), the list of  *)
(* additional style directories it last pushed into the application's      *)
(* library paths (AdditionalPaths), and it drives the application style.   *)
(* Every slot runs on the GUI thread and runs to completion; the signals   *)
(* it raises are delivered synchronously (direct connections), so one      *)
(* action is one top-level slot invocation together with every handler it  *)
(* re-triggers.                                                            *)
(***************************************************************************)
EXTENDS Integers, Sequences, FiniteSets, TLC

\* ---------------------------------------------------------------- bounds
\* longest list of keys the style factory reports
MaxKeys == 3
\* longest list of additional style directories
MaxDirs == 2
\* nesting depth of onStyleChanged at which the model stops unfolding
MaxDepth == 4

\* ------------------------------------------------------------- universes
\* keys a style plugin (or Qt itself) may register with the style factory
StyleKeys == {"Slicer", "Light", "windows"}
\* names handed to setCurrentStyle / onStyleChanged by a caller
InputNames == StyleKeys \cup {"Bogus"}
\* directories the user can put in the additional-style-paths view; a
\* directory name stands for the canonical absolute path of an existing
\* directory
Dirs == {"/app", "/ext"}
\* the application's library paths before the panel touches them
DefaultLibraryPaths == <<"/app">>
\* style of the application before the panel applies one
NativeStyle == "native"
\* lastEmitted before currentStyleChanged was ever emitted
NoSignal == "<none>"
\* QComboBox: index of "no current item", result of a failed findText
NoIndex == -1

Range(s) == {s[i] : i \in 1..Len(s)}

\* duplicate-free sequences over S of length at most n
InjSeqs(S, n) ==
  UNION {{s \in [1..k -> S] : \A i, j \in 1..k : i # j => s[i] # s[j]} : k \in 0..n}

KeyLists == InjSeqs(StyleKeys, MaxKeys)
DirLists == InjSeqs(Dirs, MaxDirs)

VARIABLES
  items,            \* StyleComboBox: the item texts, in order
  currentIndex,     \* StyleComboBox: current index, NoIndex when none
  appStyle,         \* style set on the application (QStyleFactory lower-cases keys)
  factoryKeys,      \* QStyleFactory::keys(): the styles installed right now
  directoryList,    \* AdditionalStylePathsView: the directory list
  AdditionalPaths,  \* d->AdditionalPaths
  libraryPaths,     \* QCoreApplication::libraryPaths()
  lastEmitted,      \* argument of the last currentStyleChanged signal
  events,           \* what the last top-level operation did, in order
  lastOp,           \* the last top-level operation, its argument and pre-state
  chosen            \* the user has picked a style in the combo box

vars == <<items, currentIndex, appStyle, factoryKeys, directoryList,
          AdditionalPaths, libraryPaths, lastEmitted, events, lastOp, chosen>>

\* ------------------------------------------------------------ Qt helpers
\* QString::toLower on the names of the model
toLower(s) ==
  CASE s = "Slicer" -> "slicer"
    [] s = "Light" -> "light"
    [] s = "Bogus" -> "bogus"
    [] s = "Windows" -> "windows"
    [] s = "WindowsCE" -> "windowsce"
    [] s = "WindowsXP" -> "windowsxp"
    [] s = "WindowsVista" -> "windowsvista"
    [] s = "Motif" -> "motif"
    [] s = "CDE" -> "cde"
    [] s = "Plastique" -> "plastique"
    [] s = "Cleanlooks" -> "cleanlooks"
    [] s = "Macintosh" -> "macintosh"
    [] s = "Macintosh (aqua)" -> "macintosh (aqua)"
    [] s = "GTK+" -> "gtk+"
    [] OTHER -> s

\* QComboBox::itemText: the empty string for an invalid index
itemText(its, index) ==
  IF index \in 0..(Len(its) - 1) THEN its[index + 1] ELSE ""

\* QComboBox::findText, exact and case sensitive: first match or -1
findText(its, text) ==
  IF \E i \in 1..Len(its) : its[i] = text
  THEN (CHOOSE i \in 1..Len(its) :
          its[i] = text /\ \A j \in 1..(i - 1) : its[j] # text) - 1
  ELSE NoIndex

\* QStyleFactory::create(name) # NULL: keys are matched case-insensitively
canCreate(keys, name) ==
  \E i \in 1..Len(keys) : toLower(keys[i]) = toLower(name)

\* ------------------------------------------------ the panel's private part
\* qSlicerSettingsStylesPanelPrivate constructor: Qt's built-in styles
QtStyles ==
  <<"Windows", "WindowsCE", "WindowsXP", "WindowsVista", "Motif", "CDE",
    "Plastique", "Cleanlooks", "Macintosh", "Macintosh (aqua)", "GTK+">>

isQtStyleCaseSensitive(styleName) ==
  \E i \in 1..Len(QtStyles) : QtStyles[i] = styleName

\* isQtStyle: QtStyles.contains(styleName, Qt::CaseInsensitive)
isQtStyle(styleName) ==
  \E i \in 1..Len(QtStyles) : toLower(QtStyles[i]) = toLower(styleName)

styleIndexFirstItem(its, styleName) ==
  LET found == findText(its, styleName)
  IN IF found = NoIndex THEN (IF its = <<>> THEN NoIndex ELSE 0) ELSE found

\* styleIndex: the index of styleName, of "Slicer" when it is not listed
styleIndex(its, styleName) ==
  LET found == findText(its, styleName)
  IN IF found = NoIndex THEN findText(its, "Slicer") ELSE found

(***************************************************************************)
(* A handler works on a record w:                                          *)
(*   items, idx   the combo box                                            *)
(*   connected    currentIndexChanged(QString) is connected to             *)
(*                onStyleChanged (init() connects it after its first       *)
(*                populateStyles and setCurrentStyle)                      *)
(*   keys         what QStyleFactory reports during the handler            *)
(*   app          the application style                                    *)
(*   last         argument of the last currentStyleChanged                 *)
(*   ev           the handler's trace: <<"call", n>> onStyleChanged(n)     *)
(*                entered, <<"warn", n>> creation failed, <<"set", n>>     *)
(*                app->setStyle, <<"emit", n>> currentStyleChanged(n),     *)
(*                <<"cut", n>> unfolding stopped at MaxDepth               *)
(***************************************************************************)
RECURSIVE onStyleChanged(_, _, _)
RECURSIVE setCurrentStyle(_, _, _)
RECURSIVE setCurrentIndex(_, _, _)

\* QComboBox::setCurrentIndex(index): an index out of range is "no item";
\* currentIndexChanged is emitted only when the index changes, and is
\* delivered to onStyleChanged with the new current text (d: nesting depth
\* of the onStyleChanged call this runs in)
setCurrentIndex(w, index, d) ==
  LET mi == IF index \in 0..(Len(w.items) - 1) THEN index ELSE NoIndex
      moved == [w EXCEPT !.idx = mi]
  IN IF mi = w.idx THEN w
     ELSE IF w.connected THEN onStyleChanged(moved, itemText(w.items, mi), d + 1)
     ELSE moved

\* setCurrentStyle: StyleComboBox->setCurrentIndex(d->styleIndex(newStyleName))
setCurrentStyle(w, newStyleName, d) ==
  setCurrentIndex(w, styleIndex(w.items, newStyleName), d)

onStyleChangedReapply(w, newStyleName, d) ==
  LET entered == [w EXCEPT !.ev = Append(@, <<"call", newStyleName>>)]
  IN IF d > MaxDepth
     THEN [w EXCEPT !.ev = Append(@, <<"cut", newStyleName>>)]
     ELSE IF ~canCreate(w.keys, newStyleName)
     THEN onStyleChanged([entered EXCEPT !.ev = Append(@, <<"warn", newStyleName>>)],
                         "Slicer", d + 1)
     ELSE [entered EXCEPT !.app = toLower(newStyleName),
                          !.last = newStyleName,
                          !.ev = @ \o <<<<"set", newStyleName>>, <<"emit", newStyleName>>>>]

onStyleChangedEmitAlways(w, newStyleName, d) ==
  LET entered == [w EXCEPT !.ev = Append(@, <<"call", newStyleName>>)]
  IN IF d > MaxDepth
     THEN [w EXCEPT !.ev = Append(@, <<"cut", newStyleName>>)]
     ELSE IF ~canCreate(w.keys, newStyleName)
     THEN LET back == setCurrentStyle(
                        [entered EXCEPT !.ev = Append(@, <<"warn", newStyleName>>)],
                        "Slicer", d)
          IN [back EXCEPT !.last = newStyleName,
                          !.ev = Append(@, <<"emit", newStyleName>>)]
     ELSE [entered EXCEPT !.app = toLower(newStyleName),
                          !.last = newStyleName,
                          !.ev = @ \o <<<<"set", newStyleName>>, <<"emit", newStyleName>>>>]

\* onStyleChanged: create the style; when that fails warn, select "Slicer"
\* and return; otherwise set it on the application and emit
\* currentStyleChanged(newStyleName)
onStyleChanged(w, newStyleName, d) ==
  LET entered == [w EXCEPT !.ev = Append(@, <<"call", newStyleName>>)]
  IN IF d > MaxDepth
     THEN [w EXCEPT !.ev = Append(@, <<"cut", newStyleName>>)]
     ELSE IF ~canCreate(w.keys, newStyleName)
     THEN setCurrentStyle([entered EXCEPT !.ev = Append(@, <<"warn", newStyleName>>)],
                          "Slicer", d)
     ELSE [entered EXCEPT !.app = toLower(newStyleName),
                          !.last = newStyleName,
                          !.ev = @ \o <<<<"set", newStyleName>>, <<"emit", newStyleName>>>>]

\* the items populateStyles puts in the combo box: the factory's keys that
\* are not Qt built-in styles, in the factory's order
populatedItems(keys) == SelectSeq(keys, LAMBDA style : ~isQtStyle(style))

\* populateStyles: with the combo box's signals blocked, clear it and add
\* the styles (QComboBox makes the first item added to an empty box the
\* current one); then, signals unblocked, select the previously set style
populateStyles(w) ==
  LET currentStyle == itemText(w.items, w.idx)
      added == populatedItems(w.keys)
      filled == [w EXCEPT !.items = added,
                          !.idx = IF added = <<>> THEN NoIndex ELSE 0]
      currentStyleIndex == styleIndex(added, currentStyle)
  IN setCurrentIndex(filled, currentStyleIndex, 0)

\* QCoreApplication::removeLibraryPath
removeLibraryPath(paths, path) == SelectSeq(paths, LAMBDA p : p # path)

\* QCoreApplication::addLibraryPath: prepended unless already there
addLibraryPath(paths, path) ==
  IF path \in Range(paths) THEN paths ELSE <<path>> \o paths

RECURSIVE removeLibraryPaths(_, _)
\* foreach(path, d->AdditionalPaths) removeLibraryPath(path)
removeLibraryPaths(paths, old) ==
  IF old = <<>> THEN paths
  ELSE removeLibraryPaths(removeLibraryPath(paths, Head(old)), Tail(old))

RECURSIVE addLibraryPaths(_, _)
\* foreach(path, d->AdditionalPaths) addLibraryPath(path)
addLibraryPaths(paths, new) ==
  IF new = <<>> THEN paths
  ELSE addLibraryPaths(addLibraryPath(paths, Head(new)), Tail(new))

libraryPathsKeepOld(paths, old, new) == addLibraryPaths(paths, new)

\* the library paths onAdditionalStylePathsChanged leaves: the old
\* additional paths removed, then the new ones added
libraryPathsAfterChange(paths, old, new) ==
  addLibraryPaths(removeLibraryPaths(paths, old), new)

\* ------------------------------------------------------------ the state
\* the record a handler starts from
World ==
  [items |-> items, idx |-> currentIndex, connected |-> TRUE,
   keys |-> factoryKeys, app |-> appStyle, last |-> lastEmitted, ev |-> <<>>]

currentStyle == itemText(items, currentIndex)

\* the record of a top-level operation: its name and, for the operations
\* whose effect is stated against their input and the state before, the
\* argument, the style that was selected and the additional paths that
\* were recorded before it
Op(name, arg, style, paths) ==
  [op |-> name, arg |-> arg, style |-> style, paths |-> paths]

\* the panel's state after a handler that ended in w
Commit(w) ==
  /\ items' = w.items
  /\ currentIndex' = w.idx
  /\ appStyle' = w.app
  /\ lastEmitted' = w.last
  /\ events' = w.ev

\* init(): populateStyles and setCurrentStyle("Slicer") on the empty combo
\* box, before currentIndexChanged is connected
initWorld(keys) ==
  setCurrentStyle(
    populateStyles([items |-> <<>>, idx |-> NoIndex, connected |-> FALSE,
                    keys |-> keys, app |-> NativeStyle, last |-> NoSignal,
                    ev |-> <<>>]),
    "Slicer", 0)

Init ==
  /\ factoryKeys \in KeyLists
  /\ items = initWorld(factoryKeys).items
  /\ currentIndex = initWorld(factoryKeys).idx
  /\ appStyle = NativeStyle
  /\ directoryList = <<>>
  /\ AdditionalPaths = <<>>
  /\ libraryPaths = DefaultLibraryPaths
  /\ lastEmitted = NoSignal
  /\ events = <<>>
  /\ lastOp = [op |-> "init", arg |-> "", style |-> "", paths |-> <<>>]
  /\ chosen = FALSE

\* ------------------------------------------------------------- actions
\* the user picks another item in the combo box
SelectStyle(i) ==
  /\ i \in 0..(Len(items) - 1)
  /\ i # currentIndex
  /\ LET done == setCurrentIndex(World, i, 0) IN Commit(done)
  /\ chosen' = TRUE
  /\ lastOp' = Op("select", "", "", <<>>)
  /\ UNCHANGED <<factoryKeys, directoryList, AdditionalPaths, libraryPaths>>

\* setCurrentStyle(n) called from outside (the settings, a script)
SetCurrentStyle(n) ==
  /\ LET done == setCurrentStyle(World, n, 0) IN Commit(done)
  /\ lastOp' = Op("setCurrentStyle", n, currentStyle, <<>>)
  /\ UNCHANGED <<factoryKeys, directoryList, AdditionalPaths, libraryPaths, chosen>>

\* the slot onStyleChanged(n) invoked directly
OnStyleChanged(n) ==
  /\ LET done == onStyleChanged(World, n, 1) IN Commit(done)
  /\ lastOp' = Op("onStyleChanged", "", "", <<>>)
  /\ UNCHANGED <<factoryKeys, directoryList, AdditionalPaths, libraryPaths, chosen>>

\* what the factory may report after a refresh of the plugin loaders: the
\* keys as they were, with a style the new directories bring, or without a
\* style that is no longer found
RefreshedKeys(keys) ==
  {keys}
    \cup {SubSeq(keys, 1, pos) \o <<k>> \o SubSeq(keys, pos + 1, Len(keys)) :
            k \in {x \in StyleKeys : x \notin Range(keys) /\ Len(keys) < MaxKeys},
            pos \in 0..Len(keys)}
    \cup {SelectSeq(keys, LAMBDA s : s # k) : k \in Range(keys)}

\* onAdditionalStylePathsChanged, run by directoryListChanged() when the
\* directory list became newList, or called as a slot with the list as it
\* is (newList = directoryList). Removing and adding library paths makes Qt
\* refresh its plugin loaders, so the keys the factory reports to
\* populateStyles are the ones after that refresh (newKeys; the same as
\* before when the directories bring and take no style)
OnAdditionalStylePathsChanged(newList, newKeys) ==
  /\ directoryList' = newList
  /\ libraryPaths' = libraryPathsAfterChange(libraryPaths, AdditionalPaths, newList)
  /\ AdditionalPaths' = newList
  /\ factoryKeys' = newKeys
  /\ LET done == populateStyles([World EXCEPT !.keys = newKeys]) IN Commit(done)
  /\ lastOp' = Op("onAdditionalStylePathsChanged", "", currentStyle, AdditionalPaths)
  /\ UNCHANGED chosen

\* a style plugin appears outside the panel's handlers (another part of the
\* application changed the library paths): the factory reports one more key
InstallStyle(k, pos) ==
  /\ Len(factoryKeys) < MaxKeys
  /\ k \notin Range(factoryKeys)
  /\ pos \in 0..Len(factoryKeys)
  /\ factoryKeys' = SubSeq(factoryKeys, 1, pos) \o <<k>>
                      \o SubSeq(factoryKeys, pos + 1, Len(factoryKeys))
  /\ events' = <<>>
  /\ lastOp' = Op("install", "", "", <<>>)
  /\ UNCHANGED <<items, currentIndex, appStyle, directoryList, AdditionalPaths,
                 libraryPaths, lastEmitted, chosen>>

\* a style stops being available outside the panel's handlers
UninstallStyle(k) ==
  /\ k \in Range(factoryKeys)
  /\ factoryKeys' = SelectSeq(factoryKeys, LAMBDA s : s # k)
  /\ events' = <<>>
  /\ lastOp' = Op("uninstall", "", "", <<>>)
  /\ UNCHANGED <<items, currentIndex, appStyle, directoryList, AdditionalPaths,
                 libraryPaths, lastEmitted, chosen>>

Next ==
  \/ \E i \in 0..(MaxKeys - 1) : SelectStyle(i)
  \/ \E n \in InputNames : SetCurrentStyle(n)
  \/ \E l \in DirLists :
       \E keys \in RefreshedKeys(factoryKeys) : OnAdditionalStylePathsChanged(l, keys)
  \/ \E k \in StyleKeys, pos \in 0..MaxKeys : InstallStyle(k, pos)
  \/ \E k \in StyleKeys : UninstallStyle(k)

Spec == Init /\ [][Next]_vars

NextSlots ==
  \/ Next
  \/ \E n \in InputNames : OnStyleChanged(n)

SpecSlots == Init /\ [][NextSlots]_vars


\* ------------------------------------------------------------ properties
EventsOf(kind) == {i \in 1..Len(events) : events[i][1] = kind}

\* the last operation entered onStyleChanged(n) first and n could not be created
FirstCallFailed ==
  /\ Len(events) >= 2
  /\ events[1][1] = "call"
  /\ events[2] = <<"warn", events[1][2]>>

\* the last operation was setCurrentStyle(n) with n not listed in the combo box
UnknownStyleSet ==
  /\ lastOp.op = "setCurrentStyle"
  /\ lastOp.arg \notin Range(items)

\* C1 as stated: after setCurrentStyle(n) with n not listed in the combo
\* box, currentStyle() is "Slicer", whatever the combo box holds.
C1_AlwaysSlicer == UnknownStyleSet => currentStyle = "Slicer"

\* C1 amended: after setCurrentStyle(n) with n not listed in the combo box,
\* currentStyle() is "Slicer" when "Slicer" is listed, and the selection is
\* cleared (currentStyle() is empty) when it is not.
C1_FallbackWhenListed ==
  UnknownStyleSet =>
    currentStyle = (IF "Slicer" \in Range(items) THEN "Slicer" ELSE "")

\* an unknown name moved the selection from another style to "Slicer"
C1_Witness ==
  /\ UnknownStyleSet
  /\ lastOp.style \notin {"", "Slicer"}
  /\ currentStyle = "Slicer"

\* C2: when onStyleChanged(n) was invoked with an n the factory cannot
\* create, then after the call has returned currentStyle() is "Slicer" and
\* the style of the application is the Slicer style (stated for the states
\* in which "Slicer" is listed and can be created).
C2_RevertsToDefault ==
  (FirstCallFailed /\ "Slicer" \in Range(items) /\ canCreate(factoryKeys, "Slicer"))
    => (currentStyle = "Slicer" /\ appStyle = "slicer")

\* C3: after onAdditionalStylePathsChanged the library paths contain every
\* directory of the list and none of the directories recorded at the
\* previous change that left the list, and AdditionalPaths is the list.
C3_LibraryPathsFollowList ==
  lastOp.op = "onAdditionalStylePathsChanged" =>
    /\ \A dir \in Range(directoryList) : dir \in Range(libraryPaths)
    /\ \A dir \in Range(lastOp.paths) \ Range(directoryList) :
         dir \notin Range(libraryPaths)
    /\ AdditionalPaths = directoryList

\* a change that dropped a recorded directory and kept or added another
C3_Witness ==
  /\ lastOp.op = "onAdditionalStylePathsChanged"
  /\ Range(lastOp.paths) \ Range(directoryList) # {}
  /\ directoryList # <<>>

\* C4: onStyleChanged emits currentStyleChanged(n) right after each
\* setStyle of n and for no name it did not set (none whose creation
\* failed); so the last emitted name names the style of the application.
C4_EmittedIsApplied ==
  /\ \A i \in EventsOf("set") :
       i < Len(events) /\ events[i + 1] = <<"emit", events[i][2]>>
  /\ \A i \in EventsOf("emit") :
       /\ i > 1 /\ events[i - 1] = <<"set", events[i][2]>>
       /\ canCreate(factoryKeys, events[i][2])
       /\ \A j \in EventsOf("warn") : events[j][2] # events[i][2]
  /\ lastEmitted = NoSignal => appStyle = NativeStyle
  /\ lastEmitted # NoSignal => appStyle = toLower(lastEmitted)

\* a failed creation followed by the nested, successful one
C4_Witness ==
  /\ EventsOf("warn") # {}
  /\ EventsOf("emit") # {}
  /\ lastEmitted = "Slicer"

\* C6: the chain of re-entrant onStyleChanged calls ends: an operation
\* enters onStyleChanged at most twice, the second time from the fallback
\* of the first, failed one.
C6_FallbackTerminates ==
  /\ EventsOf("cut") = {}
  /\ Cardinality(EventsOf("call")) <= 2
  /\ \A i \in EventsOf("call") : i > 1 => events[i - 1][1] = "warn"
  /\ Cardinality(EventsOf("warn")) <= 2

\* both the requested style and the fallback could not be created
C6_Witness ==
  /\ Cardinality(EventsOf("call")) = 2
  /\ Cardinality(EventsOf("warn")) = 2

\* the factory keys that match no Qt built-in style name, case-insensitively
NonQtKeys ==
  {k \in Range(factoryKeys) :
     \A i \in 1..Len(QtStyles) : toLower(QtStyles[i]) # toLower(k)}

Repopulated == lastOp.op = "onAdditionalStylePathsChanged"

\* C7 as stated: after populateStyles the previously selected style is
\* kept when still listed, currentStyle() is "Slicer" otherwise, and the
\* combo box lists exactly the non-Qt factory keys.
C7_KeepsOrSlicer ==
  Repopulated =>
    /\ Range(items) = NonQtKeys /\ Len(items) = Cardinality(NonQtKeys)
    /\ currentStyle = (IF lastOp.style \in Range(items) THEN lastOp.style ELSE "Slicer")

\* C7 amended: after populateStyles the previously selected style is kept
\* when still listed; otherwise currentStyle() is "Slicer" when "Slicer" is
\* listed and empty when it is not; the combo box lists exactly the non-Qt
\* factory keys.
C7_KeepsOrFallback ==
  Repopulated =>
    /\ Range(items) = NonQtKeys /\ Len(items) = Cardinality(NonQtKeys)
    /\ currentStyle = (IF lastOp.style \in Range(items) THEN lastOp.style
                       ELSE IF "Slicer" \in Range(items) THEN "Slicer"
                       ELSE "")

\* the previous style was kept at another place than re-filling left it,
\* next to a Qt built-in key that was filtered out
C7_Witness ==
  /\ Repopulated
  /\ lastOp.style = "Light"
  /\ currentStyle = "Light"
  /\ currentIndex > 0
  /\ Range(factoryKeys) \ Range(items) # {}

\* C8: once a style was chosen in the combo box, after every selection,
\* setCurrentStyle or path-list change the style of the application is the
\* one currentStyle() names, when that name can be created.
C8_SelectionIsApplied ==
  (/\ chosen
   /\ lastOp.op \in {"select", "setCurrentStyle", "onAdditionalStylePathsChanged"}
   /\ canCreate(factoryKeys, currentStyle))
    => appStyle = toLower(currentStyle)

====
